---------------------------- MODULE Spec2Model ----------------------------
(***************************************************************************)
(* Model of remove_language_and_subtitles_video.py: the stream selection   *)
(* of remove_audio_track and remove_subtitle_tracks, the external remux    *)
(* they invoke, and the per-file pipeline of process_videos_in_folder on a *)
(* small file system.                                                      *)
(*                                                                         *)
(* A path is a record [dir, file]: dir the sequence of directory names,    *)
(* file the sequence of the tokens of the file name (the last token is the *)
(* extension).  A file's content is [kind, streams]: kind "absent" (no     *)
(* file), "corrupt" (ffprobe fails on it) or "media" (a container whose    *)
(* streams ffprobe lists; stream index = position - 1).  A stream carries  *)
(* its codec_type, its language tag and its payload (which original file   *)
(* and which original index it was copied from).                           *)
(***************************************************************************)
EXTENDS Naturals, Sequences, FiniteSets, TLC

VARIABLES
    fs,             \* the file system: path -> content
    orig,           \* the file system when the program started
    todoDirs,       \* what os.walk and the loop over video_files have left
    attempted,      \* the input paths whose processing has begun
    cur,            \* input_video_path (with an empty file: the walked root)
    pc,             \* the position in process_videos_in_folder
    with_sub,       \* the answer to the subtitle prompt
    platform,       \* os.name
    output_folder,
    language_code,
    run,            \* what is recorded of the current file's processing
    failures        \* remux invocations that ended with a non-zero exit

vars == <<fs, orig, todoDirs, attempted, cur, pc, with_sub, platform,
          output_folder, language_code, run, failures>>

---------------------------------------------------------------------------
(* Bounds of the model.                                                    *)

\* Longest stream list the planner is run on in UnitSpec.
MaxStreams == 3

\* How many remux invocations of one batch may end with a non-zero exit.
MaxFailures == 1

---------------------------------------------------------------------------
(* Containers and streams.                                                 *)

\* The value of a stream without a language tag ('tags' missing, or no
\* 'language' key in it): it is no language code.
NoLanguage == "<untagged>"

Absent == [kind |-> "absent", streams |-> <<>>]

Corrupt == [kind |-> "corrupt", streams |-> <<>>]

Media(streams) == [kind |-> "media", streams |-> streams]

Stream(type, lang, of, i) ==
    [codec_type |-> type, language |-> lang, payload |-> [of |-> of, index |-> i]]

Exists(f, p) == f[p].kind # "absent"

\* ffmpeg.probe(path): ffmpeg.Error unless the file is a readable container.
ProbeOk(f, p) == f[p].kind = "media"

\* stream.get('tags', {}).get('language') == language_code, guarded by
\* 'tags' in stream: an untagged stream never matches.
HasLanguage(stream, code) ==
    stream.language # NoLanguage /\ stream.language = code

---------------------------------------------------------------------------
(* Stream selection.                                                       *)

\* The value of audio_track_to_remove when no stream matches (None).
None == [found |-> FALSE, index |-> 0]

\* The mutant of AudioTrackToRemove that forgets the codec_type filter.
AudioTrackToRemoveAnyType(streams, code) ==
    LET matches == {i \in 1..Len(streams) : HasLanguage(streams[i], code)}
    IN  IF matches = {} THEN None
        ELSE [found |-> TRUE,
              index |-> (CHOOSE i \in matches : \A j \in matches : i <= j) - 1]

\* Lines 43-50: the index of the first audio stream, in probe order, whose
\* language tag equals the code; None when there is none.
AudioTrackToRemove(streams, code) ==
    LET matches == {i \in 1..Len(streams) :
                      /\ streams[i].codec_type = "audio"
                      /\ HasLanguage(streams[i], code)}
    IN  IF matches = {} THEN None
        ELSE [found |-> TRUE,
              index |-> (CHOOSE i \in matches : \A j \in matches : i <= j) - 1]

\* Line 77: the indices of the subtitle streams.
SubtitleStreams(streams) ==
    {i - 1 : i \in {j \in 1..Len(streams) : streams[j].codec_type = "subtitle"}}

RECURSIVE RangeFilter(_, _, _)
\* [i for i in range(n) if i not in removed], from i on.
RangeFilter(i, n, removed) ==
    IF i >= n THEN <<>>
    ELSE (IF i \in removed THEN <<>> ELSE <<i>>) \o RangeFilter(i + 1, n, removed)

\* Line 57: the -map list of remove_audio_track.
AudioMap(streams, remove) == RangeFilter(0, Len(streams), {remove})

\* The mutant of SubtitleMap that keeps the last subtitle stream.
SubtitleMapKeepLast(streams) ==
    LET subs == SubtitleStreams(streams)
    IN  RangeFilter(0, Len(streams),
                    subs \ {CHOOSE i \in subs : \A j \in subs : j <= i})

\* Line 84: the -map list of remove_subtitle_tracks.
SubtitleMap(streams) == RangeFilter(0, Len(streams), SubtitleStreams(streams))

---------------------------------------------------------------------------
(* The external remux.                                                     *)

\* How an ffmpeg invocation can end: exit 0 with the output written, a
\* non-zero exit before the output is opened, a non-zero exit that leaves a
\* truncated output.  Popen and communicate raise for none of them.
RemuxOutcomes == {"ok", "fail", "partial"}

FirstOfType(streams, type) ==
    LET is == {i \in 1..Len(streams) : streams[i].codec_type = type}
    IN  IF is = {} THEN <<>>
        ELSE <<streams[CHOOSE i \in is : \A j \in is : i <= j]>>

\* ffmpeg without any -map option selects one stream of each type (video,
\* audio, subtitle); the first of each stands for the one it picks.
DefaultSelection(streams) ==
    FirstOfType(streams, "video") \o FirstOfType(streams, "audio")
        \o FirstOfType(streams, "subtitle")

\* The streams of the output of  ffmpeg -i input <maps> -c:v copy -c:a copy.
Selected(streams, maps) ==
    IF maps = <<>> THEN DefaultSelection(streams)
    ELSE [k \in 1..Len(maps) |-> streams[maps[k] + 1]]

\* Lines 60-67 and 87-94: the command run on file system f.  The output is
\* overwritten when it exists (the "y" piped to stdin).
Ffmpeg(f, input, maps, output, o) ==
    CASE o = "ok"      -> [f EXCEPT ![output] = Media(Selected(f[input].streams, maps))]
      [] o = "partial" -> [f EXCEPT ![output] = Corrupt]
      [] OTHER         -> f

---------------------------------------------------------------------------
(* The two stages.  Each yields the file system after it, whether a plan   *)
(* was built and which, how the remux ended ("none": not invoked) and the  *)
(* messages printed, as <<kind, path>>.                                    *)

NoPlan == [planned |-> FALSE, maps |-> <<>>]

Plan(maps) == [planned |-> TRUE, maps |-> maps]

StageResult(f, plan, rc, msgs) == [fs |-> f, plan |-> plan, rc |-> rc, msgs |-> msgs]

\* remove_audio_track(input_video_path, output_video_path, language_code).
RemoveAudioTrack(f, input, output, code, o) ==
    IF ~ProbeOk(f, input)
    THEN StageResult(f, NoPlan, "none", {<<"error", input>>})
    ELSE LET streams == f[input].streams
             r       == AudioTrackToRemove(streams, code)
         IN  IF ~r.found
             THEN StageResult(f, NoPlan, "none", {<<"no_audio", input>>})
             ELSE LET maps == AudioMap(streams, r.index)
                  IN  StageResult(Ffmpeg(f, input, maps, output, o), Plan(maps), o, {})

\* remove_subtitle_tracks(input_video_path, output_video_path).
RemoveSubtitleTracks(f, input, output, o) ==
    IF ~ProbeOk(f, input)
    THEN StageResult(f, NoPlan, "none", {<<"error", input>>})
    ELSE LET streams == f[input].streams
         IN  IF SubtitleStreams(streams) = {}
             THEN StageResult(f, NoPlan, "none", {<<"no_subtitle", input>>})
             ELSE LET maps == SubtitleMap(streams)
                  IN  StageResult(Ffmpeg(f, input, maps, output, o), Plan(maps), o, {})

---------------------------------------------------------------------------
(* Paths.                                                                  *)

Join(dir, file) == [dir |-> dir, file |-> file]

\* os.path.basename of a directory path.
Basename(dir) == IF dir = <<>> THEN "" ELSE dir[Len(dir)]

\* Line 105: file.endswith(('.mp4', '.mkv', '.avi', '.mov')).
VideoExtensions == {".mp4", ".mkv", ".avi", ".mov"}

IsVideo(file) == file # <<>> /\ file[Len(file)] \in VideoExtensions

\* Lines 110-111 and 120: output_folder / basename(root) / file.
OutputPath(out, root, file) == Join(Append(out, Basename(root)), file)

\* Line 126: output_folder / temp_<file>.
TempPath(out, file) == Join(out, <<"temp_">> \o file)

\* str.lower() on the answers the prompt can get.
Lower(s) == CASE s = "Y" -> "y" [] s = "N" -> "n" [] OTHER -> s

\* os.rename(src, dst): FileNotFoundError without src; on Windows
\* FileExistsError when dst exists, elsewhere dst is replaced.
OsRename(f, src, dst, plat) ==
    IF ~Exists(f, src) \/ (plat = "nt" /\ Exists(f, dst))
    THEN [raised |-> TRUE, fs |-> f]
    ELSE [raised |-> FALSE, fs |-> [f EXCEPT ![dst] = f[src], ![src] = Absent]]

---------------------------------------------------------------------------
(* The walked tree and the inputs of a batch.                              *)

InputFolder == <<"in">>

\* The directories of the walked tree that may hold a video file (the root
\* and in/b hold none when os.walk lists them).  Two of them have the same
\* base name at different depths.
Dirs == {<<"in", "a">>, <<"in", "b", "a">>, <<"in", "c">>}

VideoName == <<"x", ".mp4">>

NotesName == <<"notes", ".txt">>

FileNames == {VideoName, NotesName}

\* The output folders a user may give: apart from the input tree, or the
\* input folder itself.
OutputFolders == {<<"out">>, InputFolder}

InputPaths == {Join(d, n) : d \in Dirs, n \in FileNames}

Paths ==
    InputPaths
      \cup {TempPath(o, n) : o \in OutputFolders, n \in FileNames}
      \cup {OutputPath(o, d, n) : o \in OutputFolders, d \in Dirs, n \in FileNames}

\* The containers an input video may be.
Full(d) == Media(<<Stream("video", NoLanguage, d, 0), Stream("audio", "eng", d, 1),
                   Stream("audio", "jpn", d, 2), Stream("subtitle", "eng", d, 3)>>)

NoSubs(d) == Media(<<Stream("video", NoLanguage, d, 0), Stream("audio", "eng", d, 1)>>)

NoMatch(d) == Media(<<Stream("video", NoLanguage, d, 0), Stream("audio", "jpn", d, 1),
                      Stream("subtitle", "eng", d, 2)>>)

\* What each directory's video file is drawn from (Absent: the directory
\* holds no video file).  Every kind of container occurs in two directories.
Contents(d) ==
    CASE d = <<"in", "a">>      -> {Absent, Corrupt, Full(d), NoSubs(d)}
      [] d = <<"in", "b", "a">> -> {Absent, Full(d), NoSubs(d), NoMatch(d)}
      [] OTHER                  -> {Corrupt, NoSubs(d), NoMatch(d)}

NoPath == Join(<<>>, <<>>)

\* What is recorded of the processing of the current file: the input and
\* the output path's content when it started, each stage's plan and exit,
\* the intermediate file after the audio stage, the messages printed for
\* it, and whether its processing has ended.
NoRun ==
    [inAtStart |-> Absent, outBefore |-> Absent,
     audio |-> [plan |-> NoPlan, rc |-> "none"], interm |-> Absent,
     sub |-> [plan |-> NoPlan, rc |-> "none"],
     msgs |-> {}, raised |-> FALSE, ended |-> FALSE]

Outcomes == IF failures < MaxFailures THEN RemuxOutcomes ELSE {"ok"}

Failed(rc) == IF rc \in {"fail", "partial"} THEN 1 ELSE 0

CurOutput == OutputPath(output_folder, cur.dir, cur.file)

CurTemp == TempPath(output_folder, cur.file)

\* Where the loop goes when a file's processing has ended: to the next file
\* of video_files, or back to os.walk when there is none.
AfterFile == IF todoDirs.files = {} THEN "walk" ELSE "files"

---------------------------------------------------------------------------
(* process_videos_in_folder.                                               *)

Init ==
    /\ output_folder \in OutputFolders
    /\ with_sub \in {"Y", "n"}
    /\ platform \in {"posix", "nt"}
    /\ language_code = "eng"
    /\ \E c \in [Dirs -> UNION {Contents(d) : d \in Dirs}] :
          /\ \A d \in Dirs : c[d] \in Contents(d)
          /\ fs = [p \in Paths |->
                     IF p.dir \in Dirs /\ p.file = VideoName THEN c[p.dir]
                     ELSE IF p = Join(<<"in", "c">>, NotesName)
                          THEN Media(<<Stream("audio", "eng", <<"notes">>, 0)>>)
                          ELSE Absent]
    /\ orig = fs
    /\ todoDirs = [dirs |-> Dirs, files |-> {}]
    /\ attempted = {}
    /\ cur = NoPath
    /\ pc = "walk"
    /\ run = NoRun
    /\ failures = 0

\* Lines 104-107: os.walk yields the next directory; its video files are
\* the listed names with a video extension, none of them: continue.
WalkDir ==
    /\ pc = "walk"
    /\ \E d \in todoDirs.dirs :
          LET video_files == {n \in FileNames : Exists(fs, Join(d, n)) /\ IsVideo(n)}
          IN  /\ todoDirs' = [dirs |-> todoDirs.dirs \ {d}, files |-> video_files]
              /\ cur' = Join(d, <<>>)
              /\ pc' = IF video_files = {} THEN "walk" ELSE "files"
    /\ run' = NoRun
    /\ UNCHANGED <<fs, orig, attempted, with_sub, platform, output_folder, language_code, failures>>

\* Lines 118-120: the next file of the directory.
StartFile ==
    /\ pc = "files"
    /\ \E file \in todoDirs.files :
          /\ todoDirs' = [todoDirs EXCEPT !.files = @ \ {file}]
          /\ cur' = Join(cur.dir, file)
          /\ attempted' = attempted \cup {Join(cur.dir, file)}
          /\ run' = [NoRun EXCEPT
                       !.inAtStart = fs[Join(cur.dir, file)],
                       !.outBefore = fs[OutputPath(output_folder, cur.dir, file)]]
    /\ pc' = "audio"
    /\ UNCHANGED <<fs, orig, with_sub, platform, output_folder, language_code, failures>>

\* Lines 123-132: list_audio_tracks, then remove_audio_track into the
\* temporary path, then the test of with_sub.
AudioStage ==
    /\ pc = "audio"
    /\ \E o \in Outcomes :
          LET listed == IF ProbeOk(fs, cur) THEN {} ELSE {<<"error", cur>>}
              r      == RemoveAudioTrack(fs, cur, CurTemp, language_code, o)
          IN  /\ fs' = r.fs
              /\ run' = [run EXCEPT !.audio = [plan |-> r.plan, rc |-> r.rc],
                                    !.interm = r.fs[CurTemp],
                                    !.msgs = @ \cup listed \cup r.msgs]
              /\ failures' = failures + Failed(r.rc)
    /\ pc' = IF Lower(with_sub) = "y" THEN "sub" ELSE "rename"
    /\ UNCHANGED <<orig, todoDirs, attempted, cur, with_sub, platform, output_folder, language_code>>

\* Line 133: remove_subtitle_tracks from the temporary path into the output.
SubtitleStage ==
    /\ pc = "sub"
    /\ \E o \in Outcomes :
          LET r == RemoveSubtitleTracks(fs, CurTemp, CurOutput, o)
          IN  /\ fs' = r.fs
              /\ run' = [run EXCEPT !.sub = [plan |-> r.plan, rc |-> r.rc],
                                    !.msgs = @ \cup r.msgs]
              /\ failures' = failures + Failed(r.rc)
    /\ pc' = "cleanup"
    /\ UNCHANGED <<orig, todoDirs, attempted, cur, with_sub, platform, output_folder, language_code>>

\* The mutant of RenameStage without the try/except of lines 122-144: the
\* exception of os.rename ends process_videos_in_folder.
RenameStageUncaught ==
    /\ pc = "rename"
    /\ LET r == OsRename(fs, CurTemp, CurOutput, platform)
       IN  /\ fs' = r.fs
           /\ run' = IF r.raised THEN [run EXCEPT !.raised = TRUE, !.ended = TRUE] ELSE run
           /\ pc' = IF r.raised THEN "done" ELSE "cleanup"
    /\ UNCHANGED <<orig, todoDirs, attempted, cur, with_sub, platform, output_folder,
                   language_code, failures>>

\* Line 136, and lines 142-144 when os.rename raises: the error is printed
\* with the input path and the loop continues with the next file.
RenameStage ==
    /\ pc = "rename"
    /\ LET r == OsRename(fs, CurTemp, CurOutput, platform)
       IN  /\ fs' = r.fs
           /\ run' = IF r.raised
                     THEN [run EXCEPT !.msgs = @ \cup {<<"error", cur>>},
                                      !.raised = TRUE, !.ended = TRUE]
                     ELSE run
           /\ pc' = IF r.raised THEN AfterFile ELSE "cleanup"
    /\ UNCHANGED <<orig, todoDirs, attempted, cur, with_sub, platform, output_folder,
                   language_code, failures>>

\* Lines 138-147: the temporary file is removed when it exists, and the
\* progress bar advances.
Cleanup ==
    /\ pc = "cleanup"
    /\ fs' = IF Exists(fs, CurTemp) THEN [fs EXCEPT ![CurTemp] = Absent] ELSE fs
    /\ run' = [run EXCEPT !.ended = TRUE]
    /\ pc' = AfterFile
    /\ UNCHANGED <<orig, todoDirs, attempted, cur, with_sub, platform, output_folder,
                   language_code, failures>>

\* os.walk is exhausted: process_videos_in_folder returns.
Finish ==
    /\ pc = "walk"
    /\ todoDirs.dirs = {}
    /\ pc' = "done"
    /\ UNCHANGED <<fs, orig, todoDirs, attempted, cur, with_sub, platform, output_folder,
                   language_code, run, failures>>

Next ==
    \/ WalkDir
    \/ StartFile
    \/ AudioStage
    \/ SubtitleStage
    \/ RenameStage
    \/ Cleanup
    \/ Finish

Spec == Init /\ [][Next]_vars

\* The calls are blocking and sequential: a step that can be taken is taken.
FairSpec == Spec /\ WF_vars(Next)

---------------------------------------------------------------------------
(* The two stages on their own: each is called once on a container drawn   *)
(* from every stream list of at most MaxStreams streams.                   *)

UnitIn == Join(<<"unit">>, VideoName)

UnitOut == Join(<<"unit">>, <<"out", ".mp4">>)

CodecTypes == {"video", "audio", "subtitle", "data"}

\* The language tags of the drawn streams: the code, the code in another
\* case, and no tag.
UnitLanguages == {"eng", "ENG", NoLanguage}

UnitStreamLists ==
    UNION {[1..n -> CodecTypes \X UnitLanguages] : n \in 0..MaxStreams}

UnitContainer(l) ==
    Media([i \in 1..Len(l) |-> Stream(l[i][1], l[i][2], <<"unit">>, i - 1)])

\* What the output path may hold before the call.
OldOutput == Media(<<Stream("video", NoLanguage, <<"old">>, 0)>>)

UnitInit ==
    /\ \E c \in {UnitContainer(l) : l \in UnitStreamLists} \cup {Corrupt},
          old \in {Absent, OldOutput} :
          fs = [p \in {UnitIn, UnitOut} |-> IF p = UnitIn THEN c ELSE old]
    /\ orig = fs
    /\ language_code = "eng"
    /\ todoDirs = [dirs |-> {}, files |-> {}]
    /\ attempted = {}
    /\ cur = UnitIn
    /\ pc = "unit"
    /\ with_sub = "n"
    /\ platform = "posix"
    /\ output_folder = <<"unit">>
    /\ run = NoRun
    /\ failures = 0

\* remove_audio_track(UnitIn, UnitOut, language_code).
UnitRemoveAudio ==
    /\ pc = "unit"
    /\ \E o \in RemuxOutcomes :
          LET r == RemoveAudioTrack(fs, UnitIn, UnitOut, language_code, o)
          IN  /\ fs' = r.fs
              /\ run' = [run EXCEPT !.audio = [plan |-> r.plan, rc |-> r.rc],
                                    !.msgs = r.msgs, !.ended = TRUE]
              /\ failures' = failures + Failed(r.rc)
    /\ pc' = "unit_audio"
    /\ UNCHANGED <<orig, todoDirs, attempted, cur, with_sub, platform, output_folder,
                   language_code>>

\* remove_subtitle_tracks(UnitIn, UnitOut).
UnitRemoveSubtitles ==
    /\ pc = "unit"
    /\ \E o \in RemuxOutcomes :
          LET r == RemoveSubtitleTracks(fs, UnitIn, UnitOut, o)
          IN  /\ fs' = r.fs
              /\ run' = [run EXCEPT !.sub = [plan |-> r.plan, rc |-> r.rc],
                                    !.msgs = r.msgs, !.ended = TRUE]
              /\ failures' = failures + Failed(r.rc)
    /\ pc' = "unit_sub"
    /\ UNCHANGED <<orig, todoDirs, attempted, cur, with_sub, platform, output_folder,
                   language_code>>

UnitNext == UnitRemoveAudio \/ UnitRemoveSubtitles

UnitSpec == UnitInit /\ [][UnitNext]_vars

---------------------------------------------------------------------------
(* What the claims are stated with.                                        *)

Ascending(maps) == \A k \in 1..(Len(maps) - 1) : maps[k] < maps[k + 1]

Range(maps) == {maps[k] : k \in 1..Len(maps)}

Indices(streams) == 0..(Len(streams) - 1)

\* The indices of the audio streams tagged exactly with the code.
MatchingAudio(streams, code) ==
    {i \in Indices(streams) : /\ streams[i + 1].codec_type = "audio"
                              /\ streams[i + 1].language = code}

Lowest(S) == CHOOSE i \in S : \A j \in S : i <= j

RECURSIVE Keep(_, _, _)
\* The streams whose index is in keep, in their order, from index i on.
Keep(streams, keep, i) ==
    IF i >= Len(streams) THEN <<>>
    ELSE (IF i \in keep THEN <<streams[i + 1]>> ELSE <<>>) \o Keep(streams, keep, i + 1)

UnitStreams == orig[UnitIn].streams

RemuxFailed(rc) == rc \in {"fail", "partial"}

HasMatch(content) ==
    content.kind = "media" /\ MatchingAudio(content.streams, language_code) # {}

NoMatchingAudio(content) ==
    content.kind = "media" /\ MatchingAudio(content.streams, language_code) = {}

OriginalVideos == {p \in InputPaths : IsVideo(p.file) /\ Exists(orig, p)}

---------------------------------------------------------------------------
(* The claims.                                                             *)

\* C1: when at least one audio stream of the probed list is tagged exactly
\* with the language code, the plan of remove_audio_track maps, in ascending
\* order, exactly the indices of the list except the lowest matching audio
\* index: one index is left out, whatever else carries the tag.
C1_AudioPlan ==
    (pc = "unit_audio" /\ orig[UnitIn].kind = "media"
        /\ MatchingAudio(UnitStreams, language_code) # {})
    => /\ run.audio.plan.planned
       /\ Ascending(run.audio.plan.maps)
       /\ Len(run.audio.plan.maps) = Len(UnitStreams) - 1
       /\ Range(run.audio.plan.maps)
            = Indices(UnitStreams) \ {Lowest(MatchingAudio(UnitStreams, language_code))}

\* C1's case: a subtitle tagged eng at index 0 and two audio streams tagged
\* eng after it; only index 1 is left out.
C1_Witness ==
    /\ pc = "unit_audio"
    /\ Len(UnitStreams) = 3
    /\ UnitStreams[1].codec_type = "subtitle" /\ UnitStreams[1].language = "eng"
    /\ MatchingAudio(UnitStreams, language_code) = {1, 2}
    /\ run.audio.plan = Plan(<<0, 2>>)

\* C2: the plan of remove_subtitle_tracks maps, in ascending order, exactly
\* the indices whose codec_type is not subtitle; without any subtitle
\* stream there is no plan, no remux is invoked and the output path is left
\* as it was.
C2_SubtitlePlan ==
    (pc = "unit_sub" /\ orig[UnitIn].kind = "media")
    => IF SubtitleStreams(UnitStreams) = {}
       THEN /\ ~run.sub.plan.planned
            /\ run.sub.rc = "none"
            /\ fs[UnitOut] = orig[UnitOut]
            /\ <<"no_subtitle", UnitIn>> \in run.msgs
       ELSE /\ run.sub.plan.planned
            /\ Ascending(run.sub.plan.maps)
            /\ Range(run.sub.plan.maps)
                 = {i \in Indices(UnitStreams) : UnitStreams[i + 1].codec_type # "subtitle"}

\* C2's case: two subtitle streams around an audio stream, over an output
\* path that already holds a file.
C2_Witness ==
    /\ pc = "unit_sub"
    /\ Len(UnitStreams) = 3
    /\ SubtitleStreams(UnitStreams) = {0, 2}
    /\ run.sub.plan = Plan(<<1>>)
    /\ orig[UnitOut] = OldOutput

\* C3: for an input file without an audio stream tagged with the code, the
\* audio stage builds no plan and invokes no remux, and once the file has
\* been processed its output path holds what it held before.
C3_NoOutputWhenNotFound ==
    (run.ended /\ pc \in {"walk", "files"} /\ NoMatchingAudio(run.inAtStart))
    => /\ ~run.audio.plan.planned
       /\ run.audio.rc = "none"
       /\ fs[CurOutput] = run.outBefore

\* C4: with subtitle removal requested and an intermediate file, written by
\* the audio stage, that has no subtitle stream, the output path holds the
\* intermediate file once the file has been processed.
C4_PromotedWhenNoSubtitles ==
    (run.ended /\ pc \in {"walk", "files"} /\ Lower(with_sub) = "y"
        /\ run.audio.rc = "ok" /\ run.interm.kind = "media"
        /\ SubtitleStreams(run.interm.streams) = {})
    => fs[CurOutput] = run.interm

\* C5: whatever fails for a file, process_videos_in_folder goes on: it
\* eventually returns, and by then every video file of the walked tree has
\* been attempted.
C5_BatchCompletes ==
    <>(pc = "done" /\ OriginalVideos \subseteq attempted)

\* C5's case: the batch has returned after three files, one of them
\* unreadable, one remux having failed, the last one's rename having raised.
C5_Witness ==
    /\ pc = "done"
    /\ Cardinality(attempted) = 3
    /\ \E p \in OriginalVideos : orig[p] = Corrupt
    /\ failures >= 1
    /\ run.raised

\* C6: no path that held an input video file when the program started is
\* written, renamed over or deleted.
C6_OriginalsUntouched ==
    \A p \in OriginalVideos : fs[p] = orig[p]

\* C7: when the processing of a file has ended, its temporary path holds
\* no file.
C7_TempGone ==
    (run.ended /\ pc \in {"walk", "files"}) => ~Exists(fs, CurTemp)

\* C8: when a remux invocation of a file has failed, an error has been
\* printed for that file (with its input path or its temporary path) by the
\* time its processing has ended.
C8_RemuxFailureLogged ==
    (run.ended /\ pc \in {"walk", "files"} /\ (RemuxFailed(run.audio.rc) \/ RemuxFailed(run.sub.rc)))
    => \E m \in run.msgs : m[1] = "error" /\ m[2] \in {cur, CurTemp}

\* C9: for an input with a matching audio stream whose remux invocations
\* succeeded, the output path holds, once the file has been processed, the
\* input's streams without the first matching audio stream and, with
\* subtitle removal requested, without its subtitle streams, in order.
C9_PipelineOutput ==
    (run.ended /\ pc \in {"walk", "files"} /\ HasMatch(run.inAtStart)
        /\ run.audio.rc = "ok" /\ run.sub.rc \in {"ok", "none"})
    => LET S    == run.inAtStart.streams
           drop == {Lowest(MatchingAudio(S, language_code))}
                     \cup (IF Lower(with_sub) = "y" THEN SubtitleStreams(S) ELSE {})
       IN  fs[CurOutput] = Media(Keep(S, Indices(S) \ drop, 0))

\* C10: two different input files whose processing has begun have
\* different output paths.
C10_DistinctOutputs ==
    \A p, q \in attempted :
        p # q => OutputPath(output_folder, p.dir, p.file)
                   # OutputPath(output_folder, q.dir, q.file)

=============================================================================
